---- MODULE Spec2Model ----
(***************************************************************************)
(* The two storage nodes of the DFS repository (Server/Server.py, the      *)
(* primary, and "Backup Server"/backup_server.py, the backup), their       *)
(* per-file lock tables, the thread-per-connection request handlers and    *)
(* the primary's detached replication threads; and the two client programs *)
(* (Client/client.py, Client/client_remote.py) with their retry loop,      *)
(* failover to the backup and cache file.                                  *)
(*                                                                         *)
(* One connection slot is one accepted socket together with the handler    *)
(* thread serving it.  A step of a thread is one access to something       *)
(* shared (the lock table, a lock, the file store, a socket); CPython may  *)
(* switch threads between any two of them.                                 *)
(***************************************************************************)
EXTENDS Integers, Sequences, FiniteSets, TLC

\* ------------------------------------------------------------ bounds
\* The longest body a peer sends (symbols).
MaxLen == 2

\* The commands a client program runs while the nodes come and go.
MaxOps == 1

\* The commands a client program runs against nodes that stay as they are.
MaxTrip == 2

\* ------------------------------------------------------- program constants
\* replicate_to_backup: max_retries
max_retries == 3
\* the size argument of the body recv calls
RecvSize == 4096

PrimaryConns == {"p1", "p2"}
BackupConns == {"b1", "b2"}
Conns == PrimaryConns \cup BackupConns
Nodes == {"primary", "backup"}
NodeOf(h) == IF h \in PrimaryConns THEN "primary" ELSE "backup"
ConnsOf(n) == IF n = "primary" THEN PrimaryConns ELSE BackupConns

\* File names; initially "f" is stored on both nodes with the same content.
Files == {"f"}
OldContent == <<"o">>
\* A content longer than one recv returns, and a text that starts with "ERROR".
LongContent == <<"o", "o">>
ErrorContent == <<"ERROR", "o">>
Absent == [ex |-> FALSE, data |-> <<>>]
Stored(d) == [ex |-> TRUE, data |-> d]

\* A lock object is identified by the order of its creation on its node.
LockIds == 1..2
NoLock == 0
Free == "free"

\* The literal "<<EOF>>", as the two pieces a transport may deliver apart.
Sentinel == <<"<<EO", "F>>">>
Ack == <<"ACK">>

\* Each writer sends its own marker, repeated.
Marker(h) == IF h \in {"p1", "b1"} THEN "a" ELSE "b"
Body(h, n) == [i \in 1..n |-> Marker(h)]

Min(a, b) == IF a < b THEN a ELSE b

TextVerbs == {"WRITE", "APPEND", "REPLICATE"}
BinVerbs == {"UPLOAD", "REPLICATE_BINARY"}
BodyVerbs == TextVerbs \cup BinVerbs
LookupVerbs == {"READ", "DOWNLOAD", "DELETE"}

VARIABLES
    files,       \* files[n][f]: the file store (STORAGE_DIR) of node n
    file_locks,  \* file_locks[n][f]: the lock table (a dict); NoLock: no entry
    nlocks,      \* nlocks[n]: lock objects created so far on node n
    lock_held,   \* lock_held[n][l]: the thread holding lock object l, or Free
    pc,          \* pc[h]: where handler h is
    verb,        \* verb[h]: the command's first token ("": nothing was sent),
                 \* and from the if/elif chain on the verb of the branch taken
    fname,       \* fname[h]: the command's filename
    fsize,       \* fsize[h]: the byte-count argument (UPLOAD, REPLICATE_BINARY)
    lock,        \* lock[h]: the handler's local variable lock
    data,        \* data[h]: the handler's local variable data / file_data
    inq,         \* inq[h]: bytes sent by the peer and not yet received
    peer,        \* peer[h]: "none", "open", or "closed" (the peer closed its end)
    peerid,      \* peerid[h]: "client", or the primary thread that connected
    out,         \* out[h]: the messages the handler has sent, in order
    committed,   \* committed[h]: the handler has opened the file for writing
    cbody,       \* cbody[h]: the body the client of h sends
    cphase,      \* cphase[h]: what the client of h has sent so far
    rpc,         \* rpc[r]: where the replication thread started by r is
    rattempt,    \* rattempt[r]: connection attempts started by that thread
    rsock,       \* rsock[r]: the backup connection of the current attempt
    rdata,       \* rdata[r]: the data argument of replicate_to_backup
    backup_up,   \* the backup node accepts connections
    targets      \* the connection slots clients connect to

\* The client program (Client/client.py or Client/client_remote.py), one
\* command of its loop at a time.
VARIABLES
    primary_up,  \* the primary node accepts connections
    prog,        \* which of the two client programs runs
    cache,       \* cache[f]: the entry of f in CACHE_FILE
    opc,         \* where the client program is in the current command
    op,          \* the current command: verb, filename, body
    use_backup,  \* send_command's use_backup
    attempt,     \* the loop variable attempt
    conn,        \* the connection slot the socket client is connected to
    oread,       \* messages received on that socket so far
    odata,       \* download_file's file_data
    log,         \* the connect() and get_from_cache() calls of this command
    done         \* the commands that have returned, with their results

vars == <<files, file_locks, nlocks, lock_held, pc, verb, fname, fsize, lock,
          data, inq, peer, peerid, out, committed, cbody, cphase, rpc,
          rattempt, rsock, rdata, backup_up, targets, primary_up, prog,
          cache, opc, op, use_backup, attempt, conn, oread, odata, log, done>>

nodeVars == <<files, file_locks, nlocks, lock_held>>
cmdVars == <<verb, fname, fsize>>
clientVars == <<cbody, cphase>>
replVars == <<rpc, rattempt, rsock, rdata>>
orchVars == <<primary_up, prog, cache, opc, op, use_backup, attempt, conn,
             oread, odata, log, done>>
envVars == <<backup_up, targets, orchVars>>

Msg(k) == [k |-> k, v |-> <<>>, n |-> 0]

\* The cache file: filenames (g is one the run does not touch) and entries.
CacheKeys == Files \cup {"g"}
NoEntry == [has |-> FALSE, content |-> <<>>]
Entry(c) == [has |-> TRUE, content |-> c]

\* No command is running.
NoOp == [v |-> "", f |-> "f", body |-> <<>>]
Sent(h, k) == \E i \in 1..Len(out[h]) : out[h][i].k = k

\* ------------------------------------------------------------ initial state
\* No client program runs: clients are the bare connections of CConnect.
NoProgram ==
    /\ primary_up = TRUE
    /\ prog = "client"
    /\ cache = [k \in CacheKeys |-> NoEntry]
    /\ opc = "idle"
    /\ op = NoOp
    /\ use_backup = FALSE
    /\ attempt = 0
    /\ conn = "none"
    /\ oread = 0
    /\ odata = <<>>
    /\ log = <<>>
    /\ done = <<>>

\* Both nodes just started, the file f stored on both.
InitHandlers ==
    /\ file_locks = [n \in Nodes |-> [f \in Files |-> NoLock]]
    /\ nlocks = [n \in Nodes |-> 0]
    /\ lock_held = [n \in Nodes |-> [l \in LockIds |-> Free]]
    /\ pc = [h \in Conns |-> "idle"]
    /\ verb = [h \in Conns |-> ""]
    /\ fname = [h \in Conns |-> "f"]
    /\ fsize = [h \in Conns |-> 0]
    /\ lock = [h \in Conns |-> NoLock]
    /\ data = [h \in Conns |-> <<>>]
    /\ inq = [h \in Conns |-> <<>>]
    /\ peer = [h \in Conns |-> "none"]
    /\ peerid = [h \in Conns |-> "client"]
    /\ out = [h \in Conns |-> <<>>]
    /\ committed = [h \in Conns |-> FALSE]
    /\ cbody = [h \in Conns |-> <<>>]
    /\ cphase = [h \in Conns |-> "none"]
    /\ rpc = [r \in PrimaryConns |-> "none"]
    /\ rattempt = [r \in PrimaryConns |-> 0]
    /\ rsock = [r \in PrimaryConns |-> "none"]
    /\ rdata = [r \in PrimaryConns |-> <<>>]

InitNodes ==
    /\ files = [n \in Nodes |-> [f \in Files |->
                   IF f = "f" THEN Stored(OldContent) ELSE Absent]]
    /\ InitHandlers

InitCommon == InitNodes /\ NoProgram

\* One node under concurrent clients: the primary with its backup out of
\* reach, or the backup served directly.
Init ==
    /\ InitCommon
    /\ \/ targets = PrimaryConns /\ backup_up = FALSE
       \/ targets = BackupConns /\ backup_up = TRUE


\* ------------------------------------------------------------ helpers
\* The verbs of each node's if/elif chain (LIST, which touches no file, is
\* left out).
Supported(n) ==
    IF n = "primary"
    THEN {"READ", "WRITE", "UPLOAD", "DOWNLOAD", "DELETE"}
    ELSE {"READ", "WRITE", "APPEND", "DELETE", "UPLOAD", "DOWNLOAD",
          "REPLICATE", "REPLICATE_BINARY"}

\* What clients send: to the primary every verb the client programs offer,
\* to the backup the verbs of its banner ("supports all file operations")
\* with the byte-count body as REPLICATE_BINARY; or nothing at all.
\* REPLICATE comes from the primary.
ClientVerbs(n) ==
    IF n = "primary"
    THEN {"", "READ", "WRITE", "APPEND", "UPLOAD", "DOWNLOAD", "DELETE"}
    ELSE {"", "READ", "WRITE", "APPEND", "DELETE", "DOWNLOAD",
          "REPLICATE_BINARY"}

\* The finally clause: client_socket.close(); the thread and its locals end.
Close(h) ==
    /\ pc' = [pc EXCEPT ![h] = "closed"]
    /\ peer' = [peer EXCEPT ![h] = "closed"]
    /\ lock' = [lock EXCEPT ![h] = NoLock]
    /\ cphase' = [cphase EXCEPT ![h] = "none"]
    /\ cbody' = [cbody EXCEPT ![h] = <<>>]

\* send() of the handler's last message, then the finally clause: a message
\* for a peer that has gone is lost, whether send() raises or not.
Reply(h, m) ==
    /\ out' = [out EXCEPT ![h] = IF peer[h] = "open" THEN Append(@, m) ELSE @]
    /\ Close(h)

\* The handler goes on to p.
Goto(h, p) ==
    /\ pc' = [pc EXCEPT ![h] = p]
    /\ UNCHANGED <<peer, lock, clientVars>>

Release(h) ==
    lock_held' = [lock_held EXCEPT ![NodeOf(h)][lock[h]] = Free]

\* The confirmation string of each verb on each node.
SuccessText(h) ==
    IF NodeOf(h) = "primary"
    THEN CASE verb[h] = "WRITE" -> "Write successful (replicated to backup)"
           [] verb[h] = "UPLOAD" -> "Upload successful - replicated to backup"
           [] verb[h] = "DELETE" -> "Delete successful (removed from main and backup)"
           [] OTHER -> "DATA"
    ELSE CASE verb[h] = "WRITE" -> "Write successful (backup server)"
           [] verb[h] = "APPEND" -> "Append successful (backup server)"
           [] verb[h] = "DELETE" -> "Delete successful (backup server)"
           [] verb[h] = "UPLOAD" -> "Upload successful (backup server)"
           [] verb[h] = "REPLICATE" -> "Replication successful"
           [] verb[h] = "REPLICATE_BINARY" -> "Binary replication successful"
           [] OTHER -> "DATA"

\* The handler's last send: the confirmation (with the byte-count of the
\* request for UPLOAD), or the content read for READ.
SuccessMsg(h) ==
    [k |-> SuccessText(h),
     v |-> IF verb[h] = "READ" THEN data[h] ELSE <<>>,
     n |-> IF verb[h] = "UPLOAD" THEN fsize[h] ELSE 0]

\* ------------------------------------------------------------ clients
\* A client connects to slot h and sends a command line with a verb of V: a
\* text body of up to MaxLen symbols follows, or a byte-count n of up to
\* MaxLen and a body of n bytes (or of one byte less, from a peer that gives
\* up).
CConnectWith(h, V) ==
    /\ h \in targets
    /\ pc[h] = "idle"
    /\ \E v \in V, f \in Files, n \in 0..MaxLen, m \in 0..MaxLen :
         /\ v \in BinVerbs => m \in {n, n - 1}
         /\ v \in TextVerbs => n = 0
         /\ v \notin BodyVerbs => n = 0 /\ m = 0
         /\ verb' = [verb EXCEPT ![h] = v]
         /\ fname' = [fname EXCEPT ![h] = f]
         /\ fsize' = [fsize EXCEPT ![h] = n]
         /\ cbody' = [cbody EXCEPT ![h] = Body(h, m)]
    /\ pc' = [pc EXCEPT ![h] = "start"]
    /\ peer' = [peer EXCEPT ![h] = "open"]
    /\ peerid' = [peerid EXCEPT ![h] = "client"]
    /\ cphase' = [cphase EXCEPT ![h] = "cmd"]
    /\ UNCHANGED <<nodeVars, lock, data, inq, out, committed, replVars, envVars>>

\* A client connects and sends any command line (or nothing).
CConnect(h) == CConnectWith(h, ClientVerbs(NodeOf(h)))

\* Clients that write one after the other: the next one connects when the
\* connection of the one before is closed.
CConnectNext(h) ==
    /\ h = "p2" => pc["p1"] = "closed"
    /\ CConnectWith(h, {"WRITE", "UPLOAD"})

\* After READY the client sends the body ...
CSendBody(h) ==
    /\ peerid[h] = "client" /\ peer[h] = "open" /\ pc[h] # "closed"
    /\ verb[h] \in BodyVerbs
    /\ cphase[h] = "cmd"
    /\ Sent(h, "READY")
    /\ inq' = [inq EXCEPT ![h] = @ \o cbody[h]]
    /\ cphase' = [cphase EXCEPT ![h] = "body"]
    /\ UNCHANGED <<nodeVars, pc, cmdVars, lock, data, peer, peerid, out,
                   committed, cbody, replVars, envVars>>

\* ... and, for a text body, the sentinel in a send of its own.
CSendEOF(h) ==
    /\ peerid[h] = "client" /\ peer[h] = "open" /\ pc[h] # "closed"
    /\ verb[h] \in TextVerbs
    /\ cphase[h] = "body"
    /\ inq' = [inq EXCEPT ![h] = @ \o Sentinel]
    /\ cphase' = [cphase EXCEPT ![h] = "eof"]
    /\ UNCHANGED <<nodeVars, pc, cmdVars, lock, data, peer, peerid, out,
                   committed, cbody, replVars, envVars>>

\* After READY <byte-count> the downloading client sends ACK.
CAck(h) ==
    /\ peerid[h] = "client" /\ peer[h] = "open" /\ pc[h] # "closed"
    /\ verb[h] = "DOWNLOAD"
    /\ cphase[h] = "cmd"
    /\ Sent(h, "READY <byte-count>")
    /\ inq' = [inq EXCEPT ![h] = @ \o Ack]
    /\ cphase' = [cphase EXCEPT ![h] = "ack"]
    /\ UNCHANGED <<nodeVars, pc, cmdVars, lock, data, peer, peerid, out,
                   committed, cbody, replVars, envVars>>

\* A client may close its connection at any moment (and may as well never
\* take its next step: no client action is fair).
CClose(h) ==
    /\ peerid[h] = "client" /\ peer[h] = "open" /\ pc[h] # "closed"
    /\ peer' = [peer EXCEPT ![h] = "closed"]
    /\ UNCHANGED <<nodeVars, pc, cmdVars, lock, data, inq, peerid, out,
                   committed, clientVars, replVars, envVars>>

\* ------------------------------------------------------------ get_lock
\* if filename not in file_locks:
GetLockCheck(h) ==
    /\ pc[h] = "get_lock"
    /\ pc' = [pc EXCEPT ![h] =
                IF file_locks[NodeOf(h)][fname[h]] = NoLock
                THEN "gl_create" ELSE "gl_return"]
    /\ UNCHANGED <<nodeVars, cmdVars, lock, data, inq, peer, peerid, out,
                   committed, clientVars, replVars, envVars>>

\*     file_locks[filename] = threading.Lock()
GetLockCreate(h) ==
    /\ pc[h] = "gl_create"
    /\ nlocks' = [nlocks EXCEPT ![NodeOf(h)] = @ + 1]
    /\ file_locks' = [file_locks EXCEPT ![NodeOf(h)][fname[h]] = nlocks[NodeOf(h)] + 1]
    /\ pc' = [pc EXCEPT ![h] = "gl_return"]
    /\ UNCHANGED <<files, lock_held, cmdVars, lock, data, inq, peer, peerid,
                   out, committed, clientVars, replVars, envVars>>

\* return file_locks[filename]
GetLockReturn(h) ==
    /\ pc[h] = "gl_return"
    /\ lock' = [lock EXCEPT ![h] = file_locks[NodeOf(h)][fname[h]]]
    /\ pc' = [pc EXCEPT ![h] = IF verb[h] \in BodyVerbs THEN "ready" ELSE "acquire"]
    /\ UNCHANGED <<nodeVars, cmdVars, data, inq, peer, peerid, out, committed,
                   clientVars, replVars, envVars>>


\* A first token that goes on after a verb: command.startswith(verb) is true
\* of it and `command == verb` is not.
Stem(v) ==
    CASE v = "READX" -> "READ"
      [] v = "DELETEX" -> "DELETE"
      [] v = "LISTX" -> "LIST"
      [] OTHER -> v

\* The else branch of the chain.
NoBranch == "else"

\* The if/elif chain of command.startswith(...) tests: the verb of the branch
\* that is taken on node n for the first token v.
Branch(n, v) ==
    IF Stem(v) \in Supported(n) THEN Stem(v) ELSE NoBranch

\* The branch handler h takes.
Taken(h) == Branch(NodeOf(h), verb[h])

\* A command line without a filename.
NoName == ""

\* `_, filename = command.split()` of such a line raises ValueError; str(e)
\* as the except clause sends it.
UnpackError == "ERROR: not enough values to unpack (expected 2, got 1)"

\* ------------------------------------------------------------ handlers
\* command = client_socket.recv(1024).decode().strip(), the if/elif chain
\* and, for READ, DOWNLOAD and DELETE, the os.path.exists test.  A peer that
\* closed without sending makes recv return "", an invalid command.
HandleCommand(h) ==
    /\ pc[h] = "start"
    /\ verb[h] # "" \/ peer[h] = "closed"
    /\ verb' = [verb EXCEPT ![h] = IF Taken(h) = NoBranch THEN @ ELSE Taken(h)]
    /\ IF Taken(h) = NoBranch
       THEN Reply(h, Msg("ERROR: Invalid command"))
       ELSE IF fname[h] = NoName
       THEN Reply(h, Msg(UnpackError))
       ELSE IF Taken(h) \in LookupVerbs /\ ~files[NodeOf(h)][fname[h]].ex
       THEN Reply(h, Msg("ERROR: File not found"))
       ELSE Goto(h, "get_lock") /\ UNCHANGED out
    /\ UNCHANGED <<nodeVars, fname, fsize, data, inq, peerid, committed,
                   replVars, envVars>>

\* Where a handler waits in recv for its peer.
InRecv(h) ==
    \/ pc[h] = "start" /\ verb[h] = ""
    \/ pc[h] \in {"recv_text", "recv_bin", "dl_ack"}

\* client_socket.settimeout(30) of the primary (the backup sets none): a recv
\* that gets nothing raises socket.timeout; the handler answers and closes,
\* leaving the with-block of DOWNLOAD if it is in it.
HandleTimeout(h) ==
    /\ NodeOf(h) = "primary"
    /\ InRecv(h)
    /\ inq[h] = <<>> /\ peer[h] = "open"
    /\ Reply(h, Msg("ERROR: Connection timeout"))
    /\ IF pc[h] = "dl_ack" THEN Release(h) ELSE UNCHANGED lock_held
    /\ UNCHANGED <<files, file_locks, nlocks, cmdVars, data, inq, peerid,
                   committed, replVars, envVars>>

\* AfterReady with the byte-count loop entered for a byte-count of 0 as well.
AfterReadyAlwaysRecv(h) ==
    IF verb[h] \in TextVerbs THEN "recv_text" ELSE "recv_bin"

\* The pc after READY: the sentinel loop, or the byte-count loop (which is
\* not entered for a byte-count of 0).
AfterReady(h) ==
    IF verb[h] \in TextVerbs THEN "recv_text"
    ELSE IF fsize[h] = 0 THEN "acquire" ELSE "recv_bin"

\* SendReady with the lock taken before READY is sent and kept while the body
\* is received.
SendReadyLocked(h) ==
    /\ pc[h] = "ready"
    /\ peer[h] = "open"
    /\ lock_held[NodeOf(h)][lock[h]] = Free
    /\ lock_held' = [lock_held EXCEPT ![NodeOf(h)][lock[h]] = h]
    /\ out' = [out EXCEPT ![h] = Append(@, Msg("READY"))]
    /\ Goto(h, AfterReady(h))
    /\ UNCHANGED <<files, file_locks, nlocks, cmdVars, data, inq, peerid,
                   committed, replVars, envVars>>

\* client_socket.send("READY".encode()); the lock was looked up, not taken.
\* To a peer that has gone the send either raises or is lost.
SendReady(h) ==
    /\ pc[h] = "ready"
    /\ \/ /\ peer[h] = "open"
          /\ out' = [out EXCEPT ![h] = Append(@, Msg("READY"))]
          /\ Goto(h, AfterReady(h))
       \/ /\ peer[h] = "closed"
          /\ out' = out
          /\ Goto(h, AfterReady(h))
       \/ /\ peer[h] = "closed"
          /\ out' = out
          /\ Close(h)
    /\ UNCHANGED <<nodeVars, cmdVars, data, inq, peerid, committed, replVars,
                   envVars>>

\* file_data.decode('utf-8', errors='ignore'): the bytes that are no text
\* are dropped.
IsText(x) == x # "0xFF"
DecodeIgnore(bytes) == SelectSeq(bytes, IsText)

\* The two bytes of a character that UTF-8 encodes in two (0xC3 0xA9 is
\* the letter e with an acute accent), one symbol each.
Lead == "0xC3"
Cont == "0xA9"
NonAscii == <<Lead, Cont>>

\* bytes.decode() returns: the chunk holds whole characters only.  A chunk
\* that ends after a lead byte or starts with a continuation byte, or holds
\* a byte that is no text, raises UnicodeDecodeError.
Decodes(chunk) ==
    \A i \in 1..Len(chunk) :
        /\ IsText(chunk[i])
        /\ chunk[i] = Lead => i < Len(chunk) /\ chunk[i + 1] = Cont
        /\ chunk[i] = Cont => i > 1 /\ chunk[i - 1] = Lead

\* str(e) of the UnicodeDecodeError, as the except clause sends it.
DecodeError == "ERROR: 'utf-8' codec can't decode byte"

\* One turn of the sentinel loop: recv(4096) returns some non-empty prefix of
\* what has arrived; the loop ends when the chunk is exactly the sentinel.
RecvText(h) ==
    /\ pc[h] = "recv_text"
    /\ inq[h] # <<>>
    /\ \E k \in 1..Min(Len(inq[h]), RecvSize) :
         LET chunk == SubSeq(inq[h], 1, k) IN
         /\ inq' = [inq EXCEPT ![h] = SubSeq(@, k + 1, Len(@))]
         /\ IF ~Decodes(chunk)
            THEN data' = data /\ Reply(h, Msg(DecodeError))
            ELSE /\ IF chunk = Sentinel
                    THEN pc' = [pc EXCEPT ![h] = "acquire"] /\ data' = data
                    ELSE pc' = pc /\ data' = [data EXCEPT ![h] = @ \o chunk]
                 /\ UNCHANGED <<lock, peer, out, clientVars>>
    /\ UNCHANGED <<nodeVars, cmdVars, peerid, committed, replVars, envVars>>

\* The same turn once the peer has closed: recv returns "" at once, which
\* is not the sentinel, data += "" and the loop goes round again.
RecvTextClosed(h) ==
    /\ pc[h] = "recv_text"
    /\ inq[h] = <<>> /\ peer[h] = "closed"
    /\ UNCHANGED vars

\* One turn of the byte-count loop: recv(min(4096, filesize - received));
\* an empty chunk (the peer closed) breaks out of the loop.
RecvBin(h) ==
    /\ pc[h] = "recv_bin"
    /\ \/ /\ inq[h] # <<>>
          /\ \E k \in 1..Min(Min(Len(inq[h]), fsize[h] - Len(data[h])), RecvSize) :
               /\ inq' = [inq EXCEPT ![h] = SubSeq(@, k + 1, Len(@))]
               /\ data' = [data EXCEPT ![h] = @ \o SubSeq(inq[h], 1, k)]
               /\ pc' = [pc EXCEPT ![h] =
                           IF Len(data[h]) + k < fsize[h] THEN "recv_bin" ELSE "acquire"]
       \/ /\ inq[h] = <<>> /\ peer[h] = "closed"
          /\ pc' = [pc EXCEPT ![h] = "acquire"]
          /\ UNCHANGED <<inq, data>>
    /\ UNCHANGED <<nodeVars, cmdVars, lock, peer, peerid, out, committed,
                   clientVars, replVars, envVars>>

\* The pc inside the with-block of each verb.
InLock(h) ==
    CASE verb[h] = "READ" -> "read"
      [] verb[h] = "DELETE" -> "remove"
      [] verb[h] = "DOWNLOAD" -> "dl_size"
      [] OTHER -> "open"

\* with lock: blocks until the lock object is free.
Acquire(h) ==
    /\ pc[h] = "acquire"
    /\ lock_held[NodeOf(h)][lock[h]] = Free
    /\ lock_held' = [lock_held EXCEPT ![NodeOf(h)][lock[h]] = h]
    /\ pc' = [pc EXCEPT ![h] = InLock(h)]
    /\ UNCHANGED <<files, file_locks, nlocks, cmdVars, lock, data, inq, peer,
                   peerid, out, committed, clientVars, replVars, envVars>>

\* open(filepath, "w" / "wb") creates or truncates the file; "a" creates it
\* if it is absent.
OpenForWrite(h) ==
    /\ pc[h] = "open"
    /\ files' = [files EXCEPT ![NodeOf(h)][fname[h]] =
                   IF verb[h] = "APPEND" /\ @.ex THEN @ ELSE Stored(<<>>)]
    /\ committed' = [committed EXCEPT ![h] = TRUE]
    /\ pc' = [pc EXCEPT ![h] = "write"]
    /\ UNCHANGED <<file_locks, nlocks, lock_held, cmdVars, lock, data, inq,
                   peer, peerid, out, clientVars, replVars, envVars>>

\* What f.write(data) and the close leave in a file holding old: the data at
\* the descriptor's offset 0 over what is there ("w", "wb"), or at the end
\* ("a").
Written(h, old) ==
    IF verb[h] = "APPEND" THEN old \o data[h]
    ELSE data[h] \o SubSeq(old, Len(data[h]) + 1, Len(old))

\* AfterWrite without the start of the replication thread.
AfterWriteNoThread(h) == "respond"

\* The pc after the with-block of a body verb: on the primary WRITE and UPLOAD
\* start the replication thread before they respond.
AfterWrite(h) ==
    IF NodeOf(h) = "primary" /\ verb[h] \in {"WRITE", "UPLOAD"}
    THEN "spawn" ELSE "respond"

\* f.write(data), the end of "with open" (flush and close) and of "with lock".
\* A file unlinked since the open takes the bytes with it.
WriteFile(h) ==
    /\ pc[h] = "write"
    /\ files' = [files EXCEPT ![NodeOf(h)][fname[h]] =
                   IF @.ex THEN Stored(Written(h, @.data)) ELSE @]
    /\ Release(h)
    /\ pc' = [pc EXCEPT ![h] = AfterWrite(h)]
    /\ UNCHANGED <<file_locks, nlocks, cmdVars, lock, data, inq, peer, peerid,
                   out, committed, clientVars, replVars, envVars>>

\* threading.Thread(target=replicate_to_backup, args=(filename, data)).start()
\* with, for UPLOAD, the decoded file_data as data.
StartReplication(h) ==
    /\ pc[h] = "spawn"
    /\ rpc' = [rpc EXCEPT ![h] = "connect"]
    /\ rdata' = [rdata EXCEPT ![h] =
                   IF verb[h] = "UPLOAD" THEN DecodeIgnore(data[h]) ELSE data[h]]
    /\ pc' = [pc EXCEPT ![h] = "respond"]
    /\ UNCHANGED <<nodeVars, cmdVars, lock, data, inq, peer, peerid, out,
                   committed, clientVars, rattempt, rsock, envVars>>

\* Respond made to wait for replicate_to_backup and to report its result.
RespondByOutcome(h) ==
    /\ pc[h] = "respond"
    /\ h \in PrimaryConns /\ rpc[h] # "none" => rpc[h] \in {"true", "false"}
    /\ Reply(h, IF h \in PrimaryConns /\ rpc[h] = "false"
                THEN Msg("ERROR: Replication failed") ELSE SuccessMsg(h))
    /\ UNCHANGED <<nodeVars, cmdVars, data, inq, peerid, committed, replVars,
                   envVars>>

\* The handler's last send (the confirmation, or the content read) and the
\* finally clause.
Respond(h) ==
    /\ pc[h] = "respond"
    /\ Reply(h, SuccessMsg(h))
    /\ UNCHANGED <<nodeVars, cmdVars, data, inq, peerid, committed, replVars,
                   envVars>>

\* READ: with lock: with open(filepath, "r") as f: data = f.read().  A file
\* removed since the exists test makes open raise.
ReadFile(h) ==
    /\ pc[h] = "read"
    /\ Release(h)
    /\ IF files[NodeOf(h)][fname[h]].ex
       THEN /\ data' = [data EXCEPT ![h] = files[NodeOf(h)][fname[h]].data]
            /\ Goto(h, "respond")
            /\ out' = out
       ELSE /\ data' = data
            /\ Reply(h, Msg("ERROR: [Errno 2] No such file or directory"))
    /\ UNCHANGED <<files, file_locks, nlocks, cmdVars, inq, peerid, committed,
                   replVars, envVars>>

\* DELETE: with lock: os.remove(filepath).
RemoveFile(h) ==
    /\ pc[h] = "remove"
    /\ Release(h)
    /\ IF files[NodeOf(h)][fname[h]].ex
       THEN /\ files' = [files EXCEPT ![NodeOf(h)][fname[h]] = Absent]
            /\ Goto(h, IF NodeOf(h) = "primary" THEN "del_backup" ELSE "respond")
            /\ out' = out
       ELSE /\ files' = files
            /\ Reply(h, Msg("ERROR: [Errno 2] No such file or directory"))
    /\ UNCHANGED <<file_locks, nlocks, cmdVars, data, inq, peerid, committed,
                   replVars, envVars>>

\* DOWNLOAD: with lock: filesize = os.path.getsize(filepath) and the send of
\* READY <byte-count>; the lock stays held.
DownloadSize(h) ==
    /\ pc[h] = "dl_size"
    /\ IF files[NodeOf(h)][fname[h]].ex
       THEN /\ fsize' = [fsize EXCEPT ![h] = Len(files[NodeOf(h)][fname[h]].data)]
            /\ out' = [out EXCEPT ![h] =
                         IF peer[h] = "open"
                         THEN Append(@, [k |-> "READY <byte-count>", v |-> <<>>,
                                         n |-> Len(files[NodeOf(h)][fname[h]].data)])
                         ELSE @]
            /\ Goto(h, "dl_ack")
            /\ UNCHANGED lock_held
       ELSE /\ fsize' = fsize
            /\ Release(h)
            /\ Reply(h, Msg("ERROR: [Errno 2] No such file or directory"))
    /\ UNCHANGED <<files, file_locks, nlocks, verb, fname, data, inq, peerid,
                   committed, replVars, envVars>>

\* DOWNLOAD: ack = recv(1024), still inside the with-block; after "ACK" the
\* file is opened and streamed, after anything else nothing is sent.
DownloadAck(h) ==
    /\ pc[h] = "dl_ack"
    /\ inq[h] # <<>> \/ peer[h] = "closed"
    /\ Release(h)
    /\ inq' = [inq EXCEPT ![h] = <<>>]
    /\ IF inq[h] # Ack
       THEN Close(h) /\ out' = out
       ELSE IF files[NodeOf(h)][fname[h]].ex
       THEN Reply(h, [k |-> "BYTES", v |-> files[NodeOf(h)][fname[h]].data, n |-> 0])
       ELSE Reply(h, Msg("ERROR: [Errno 2] No such file or directory"))
    /\ UNCHANGED <<files, file_locks, nlocks, cmdVars, data, peerid, committed,
                   replVars, envVars>>


\* ------------------------------------------------------------ primary to backup
\* The backup slot a new connection from the primary gets.
FreeBackupConns == {b \in BackupConns : pc[b] = "idle"}
Accepts == backup_up /\ FreeBackupConns # {}

\* A connection of primary thread r to the backup with its command line sent.
ConnectBackup(r, v) ==
    LET b == CHOOSE x \in FreeBackupConns : TRUE IN
    /\ pc' = [pc EXCEPT ![b] = "start"]
    /\ verb' = [verb EXCEPT ![b] = v]
    /\ fname' = [fname EXCEPT ![b] = fname[r]]
    /\ peer' = [peer EXCEPT ![b] = "open"]
    /\ peerid' = [peerid EXCEPT ![b] = r]
    /\ rsock' = [rsock EXCEPT ![r] = b]

\* AfterFailure with one turn too many of the retry loop.
AfterFailureOneMore(n) ==
    IF n <= max_retries THEN "connect" ELSE "false"

\* for attempt in range(max_retries): after the n-th attempt has failed the
\* loop goes on to the next one, or is exhausted and the function returns
\* False.
AfterFailure(n) ==
    IF n < max_retries THEN "connect" ELSE "false"

\* The rest of a failed attempt: the finally clause closes backup_socket and
\* the loop goes on or ends.
NextAttempt(r) ==
    rpc' = [rpc EXCEPT ![r] = AfterFailure(rattempt[r])]

\* replicate_to_backup, one attempt: socket(), settimeout(5), connect() and
\* the send of "REPLICATE <filename>"; a refused connection raises.
ReplicateConnect(r) ==
    /\ rpc[r] = "connect"
    /\ rattempt' = [rattempt EXCEPT ![r] = @ + 1]
    /\ IF Accepts
       THEN /\ ConnectBackup(r, "REPLICATE")
            /\ rpc' = [rpc EXCEPT ![r] = "wait_ready"]
       ELSE /\ rpc' = [rpc EXCEPT ![r] = AfterFailure(rattempt[r] + 1)]
            /\ UNCHANGED <<pc, verb, fname, peer, peerid, rsock>>
    /\ UNCHANGED <<nodeVars, fsize, lock, data, inq, out, committed, clientVars,
                   rdata, envVars>>

\* response = backup_socket.recv(1024).decode(); anything but READY ends the
\* attempt without an exception.
ReplicateRecvReady(r) ==
    /\ rpc[r] = "wait_ready"
    /\ Len(out[rsock[r]]) >= 1 \/ pc[rsock[r]] = "closed"
    /\ IF Len(out[rsock[r]]) >= 1 /\ out[rsock[r]][1].k = "READY"
       THEN rpc' = [rpc EXCEPT ![r] = "send_data"] /\ peer' = peer
       ELSE NextAttempt(r) /\ peer' = [peer EXCEPT ![rsock[r]] = "closed"]
    /\ UNCHANGED <<nodeVars, pc, cmdVars, lock, data, inq, peerid, out,
                   committed, clientVars, rattempt, rsock, rdata, envVars>>

\* Nothing to receive within the 5 time-units of settimeout(5): socket.timeout
\* is raised, caught, and the attempt is over.
ReplicateTimeout(r) ==
    /\ rpc[r] \in {"wait_ready", "wait_result"}
    /\ pc[rsock[r]] # "closed"
    /\ Len(out[rsock[r]]) < (IF rpc[r] = "wait_ready" THEN 1 ELSE 2)
    /\ NextAttempt(r)
    /\ peer' = [peer EXCEPT ![rsock[r]] = "closed"]
    /\ UNCHANGED <<nodeVars, pc, cmdVars, lock, data, inq, peerid, out,
                   committed, clientVars, rattempt, rsock, rdata, envVars>>

\* backup_socket.send(data.encode())
ReplicateSendData(r) ==
    /\ rpc[r] = "send_data"
    /\ inq' = [inq EXCEPT ![rsock[r]] = @ \o rdata[r]]
    /\ rpc' = [rpc EXCEPT ![r] = "send_eof"]
    /\ UNCHANGED <<nodeVars, pc, cmdVars, lock, data, peer, peerid, out,
                   committed, clientVars, rattempt, rsock, rdata, envVars>>

\* backup_socket.send("<<EOF>>".encode())
ReplicateSendEOF(r) ==
    /\ rpc[r] = "send_eof"
    /\ inq' = [inq EXCEPT ![rsock[r]] = @ \o Sentinel]
    /\ rpc' = [rpc EXCEPT ![r] = "wait_result"]
    /\ UNCHANGED <<nodeVars, pc, cmdVars, lock, data, peer, peerid, out,
                   committed, clientVars, rattempt, rsock, rdata, envVars>>

\* result = backup_socket.recv(1024).decode(); close(); return True, whatever
\* result is (also "" from a backup that closed the connection).
ReplicateRecvResult(r) ==
    /\ rpc[r] = "wait_result"
    /\ Len(out[rsock[r]]) >= 2 \/ pc[rsock[r]] = "closed"
    /\ rpc' = [rpc EXCEPT ![r] = "true"]
    /\ peer' = [peer EXCEPT ![rsock[r]] = "closed"]
    /\ UNCHANGED <<nodeVars, pc, cmdVars, lock, data, inq, peerid, out,
                   committed, clientVars, rattempt, rsock, rdata, envVars>>

\* DELETE on the primary, after the local remove: connect to the backup and
\* send "DELETE <filename>"; a refused connection is caught and printed.
DeleteOnBackup(h) ==
    /\ pc[h] = "del_backup"
    /\ IF Accepts
       THEN LET b == CHOOSE x \in FreeBackupConns : TRUE IN
            /\ pc' = [pc EXCEPT ![h] = "del_wait", ![b] = "start"]
            /\ verb' = [verb EXCEPT ![b] = "DELETE"]
            /\ fname' = [fname EXCEPT ![b] = fname[h]]
            /\ peer' = [peer EXCEPT ![b] = "open"]
            /\ peerid' = [peerid EXCEPT ![b] = h]
            /\ rsock' = [rsock EXCEPT ![h] = b]
       ELSE /\ pc' = [pc EXCEPT ![h] = "respond"]
            /\ UNCHANGED <<verb, fname, peer, peerid, rsock>>
    /\ UNCHANGED <<nodeVars, fsize, lock, data, inq, out, committed, clientVars,
                   rpc, rattempt, rdata, envVars>>

\* DeleteWait of a handler that reports a backup deletion that did not
\* succeed to its client.
DeleteWaitReports(h) ==
    /\ pc[h] = "del_wait"
    /\ IF Sent(rsock[h], "Delete successful (backup server)")
       THEN /\ peer' = [peer EXCEPT ![rsock[h]] = "closed"]
            /\ pc' = [pc EXCEPT ![h] = "respond"]
            /\ UNCHANGED <<lock, out, clientVars>>
       ELSE /\ out' = [out EXCEPT ![h] = Append(@, Msg("ERROR: <response>"))]
            /\ pc' = [pc EXCEPT ![h] = "closed"]
            /\ peer' = [peer EXCEPT ![h] = "closed", ![rsock[h]] = "closed"]
            /\ lock' = [lock EXCEPT ![h] = NoLock]
            /\ cphase' = [cphase EXCEPT ![h] = "none"]
            /\ cbody' = [cbody EXCEPT ![h] = <<>>]
    /\ UNCHANGED <<nodeVars, cmdVars, data, inq, peerid, committed, replVars,
                   envVars>>

\* backup_response = backup_socket.recv(1024): the backup's answer, or the
\* timeout of settimeout(5); either way the handler goes on to its response.
DeleteWait(h) ==
    /\ pc[h] = "del_wait"
    /\ peer' = [peer EXCEPT ![rsock[h]] = "closed"]
    /\ pc' = [pc EXCEPT ![h] = "respond"]
    /\ UNCHANGED <<nodeVars, cmdVars, lock, data, inq, peerid, out, committed,
                   clientVars, replVars, envVars>>

\* ------------------------------------------------------------ client programs
Programs == {"client", "client_remote"}

\* The commands of each program's loop that name a file.
Commands(p) ==
    IF p = "client"
    THEN {"READ", "WRITE", "APPEND", "DELETE", "UPLOAD", "DOWNLOAD"}
    ELSE {"READ", "WRITE", "DELETE"}

\* The command goes through send_command (upload_file and download_file are
\* functions of client.py only).
ViaSendCommand == ~(prog = "client" /\ op.v \in {"UPLOAD", "DOWNLOAD"})

\* send_command sends a body: command.startswith("WRITE") or
\* command.startswith("APPEND") in client.py, "WRITE" only in client_remote.py.
SendsBody(p, v) ==
    IF p = "client" THEN v \in {"WRITE", "APPEND"} ELSE v = "WRITE"

\* The commands after whose result the cache entry is invalidated.
Invalidates(p, v) ==
    IF p = "client" THEN v \in {"WRITE", "UPLOAD", "APPEND", "DELETE"}
    ELSE v = "WRITE"

\* The texts that start with "ERROR".
ErrorTexts ==
    {"ERROR: Invalid command", "ERROR: File not found",
     "ERROR: Connection timeout",
     "ERROR: [Errno 2] No such file or directory",
     "ERROR: 'utf-8' codec can't decode byte",
     "ERROR: not enough values to unpack (expected 2, got 1)",
     "ERROR: <response>",
     "ERROR: Could not connect to server after multiple attempts",
     "ERROR: Could not upload file after multiple attempts",
     "ERROR: Could not download file after multiple attempts"}

\* result.startswith("ERROR"): of a message of the protocol, or of a content.
IsError(m) ==
    \/ m.k \in ErrorTexts
    \/ m.k = "DATA" /\ m.v # <<>> /\ m.v[1] = "ERROR"

\* recv() of an empty string: the peer closed without sending (more).
Empty == [k |-> "DATA", v |-> <<>>, n |-> 0]

\* cache[filename] = {"content": content, ...}; save_cache(cache)
add_to_cache(c, f, content) == [c EXCEPT ![f] = Entry(content)]

\* if filename in cache: del cache[filename]; save_cache(cache)
invalidate_cache(c, f) == [c EXCEPT ![f] = NoEntry]

\* cache[filename]["content"], or None (NoEntry)
get_from_cache(f) == cache[f]

\* `if cached_content:` is true of a string that is not empty.
Truthy(e) == e.has /\ e.content # <<>>

\* The body of the i-th command of the run.
OBody(n) == Body(IF done = <<>> THEN "p1" ELSE "p2", n)

\* server_ip, port
Target == IF use_backup THEN "backup" ELSE "primary"

\* A slot whose threads have ended, or whose handler only turns in the
\* sentinel loop on a closed connection: nothing of it is seen again, and the
\* slot can stand for a new connection.
Recyclable(h) ==
    /\ \/ pc[h] = "closed"
       \/ pc[h] = "recv_text" /\ peer[h] = "closed" /\ inq[h] = <<>>
    /\ h \in PrimaryConns => rpc[h] \in {"none", "true", "false"}
    /\ \A r \in PrimaryConns :
          rsock[r] = h => rpc[r] \in {"none", "true", "false"} /\ pc[r] # "del_wait"

FreeConns(n) == {h \in ConnsOf(n) : pc[h] = "idle" \/ Recyclable(h)}

\* The replication thread of a new connection's slot: none yet.
NoThread(f, h, v) == IF h \in PrimaryConns THEN [f EXCEPT ![h] = v] ELSE f

\* connect() succeeds.
Reachable(n) == IF n = "primary" THEN primary_up ELSE backup_up

\* The text returned when the loop is exhausted.
GiveUpText ==
    IF ViaSendCommand
    THEN "ERROR: Could not connect to server after multiple attempts"
    ELSE IF op.v = "UPLOAD"
    THEN "ERROR: Could not upload file after multiple attempts"
    ELSE "ERROR: Could not download file after multiple attempts"

\* return r: the command loop prints it and reads the next command.
Return(r, lg) ==
    /\ done' = Append(done, [v |-> op.v, f |-> op.f, body |-> op.body,
                             log |-> lg, result |-> r])
    /\ opc' = "idle"
    /\ op' = NoOp
    /\ use_backup' = FALSE
    /\ attempt' = 0
    /\ conn' = "none"
    /\ oread' = 0
    /\ odata' = <<>>
    /\ log' = <<>>

\* The next turn of the loop (att), or send_command called again with
\* use_backup (ub).
Retry(lg, ub, att) ==
    /\ opc' = "connect"
    /\ use_backup' = ub
    /\ attempt' = att
    /\ conn' = "none"
    /\ oread' = 0
    /\ odata' = <<>>
    /\ log' = lg
    /\ UNCHANGED <<op, done>>

\* finally: client.close()
CloseSocket ==
    peer' = IF conn = "none" THEN peer ELSE [peer EXCEPT ![conn] = "closed"]

\* FailsOver for every command, not only READ.
FailsOverAnyVerb ==
    ~use_backup /\ attempt = max_retries - 1

\* FailsOver at the first failed attempt.
FailsOverAtOnce ==
    ~use_backup /\ op.v = "READ"

\* not use_backup and command.startswith("READ") and attempt == max_retries - 1
FailsOver ==
    ~use_backup /\ op.v = "READ" /\ attempt = max_retries - 1

\* command.startswith("READ") and attempt == max_retries - 1, reached when
\* FailsOver is false: the cache is looked up.
LooksUpCache ==
    ViaSendCommand /\ ~FailsOver /\ op.v = "READ" /\ attempt = max_retries - 1

\* The except clause of the attempt whose connect() call made the log lg.
Except(lg) ==
    LET lg2 == IF LooksUpCache
               THEN Append(lg, [to |-> "cache", ok |-> get_from_cache(op.f).has])
               ELSE lg
    IN
    IF ViaSendCommand /\ FailsOver
    THEN Retry(lg, TRUE, 0)
    ELSE IF LooksUpCache /\ Truthy(get_from_cache(op.f))
    THEN Return([k |-> "[FROM CACHE]", v |-> get_from_cache(op.f).content,
                 n |-> 0], lg2)
    ELSE IF attempt < max_retries - 1
    THEN Retry(lg2, use_backup, attempt + 1)
    ELSE Return(Msg(GiveUpText), lg2)

\* The user types a command (the k-th at most).
OStart(k) ==
    /\ opc = "idle"
    /\ Len(done) < k
    /\ \E v \in Commands(prog), n \in 0..MaxLen :
         /\ v \notin {"WRITE", "APPEND", "UPLOAD"} => n = 0
         /\ op' = [v |-> v, f |-> "f", body |-> OBody(n)]
    /\ opc' = "connect"
    /\ UNCHANGED <<nodeVars, pc, cmdVars, lock, data, inq, peer, peerid, out,
                   committed, clientVars, replVars, backup_up, targets,
                   primary_up, prog, cache, use_backup, attempt, conn, oread,
                   odata, log, done>>

\* Where the program goes after connect() and the send of the command line.
AfterSend ==
    CASE ~ViaSendCommand /\ op.v = "UPLOAD" -> "up_response"
      [] ~ViaSendCommand /\ op.v = "DOWNLOAD" -> "dl_response"
      [] ViaSendCommand /\ SendsBody(prog, op.v) -> "response"
      [] OTHER -> "result"

\* socket(), settimeout(), connect() and client.send(command.encode()).  The
\* connection slots of the model bound the connections a node accepts.
OConnect ==
    /\ opc = "connect"
    /\ Reachable(Target)
    /\ FreeConns(Target) # {}
    /\ LET h == CHOOSE x \in FreeConns(Target) : TRUE IN
         /\ pc' = [pc EXCEPT ![h] = "start"]
         /\ verb' = [verb EXCEPT ![h] = op.v]
         /\ fname' = [fname EXCEPT ![h] = op.f]
         /\ fsize' = [fsize EXCEPT ![h] =
                        IF op.v = "UPLOAD" THEN Len(op.body) ELSE 0]
         /\ peer' = [peer EXCEPT ![h] = "open"]
         /\ peerid' = [peerid EXCEPT ![h] = "program"]
         /\ lock' = [lock EXCEPT ![h] = NoLock]
         /\ data' = [data EXCEPT ![h] = <<>>]
         /\ inq' = [inq EXCEPT ![h] = <<>>]
         /\ out' = [out EXCEPT ![h] = <<>>]
         /\ committed' = [committed EXCEPT ![h] = FALSE]
         /\ rpc' = NoThread(rpc, h, "none")
         /\ rattempt' = NoThread(rattempt, h, 0)
         /\ rsock' = NoThread(rsock, h, "none")
         /\ rdata' = NoThread(rdata, h, <<>>)
         /\ conn' = h
    /\ log' = Append(log, [to |-> Target, ok |-> TRUE])
    /\ opc' = AfterSend
    /\ oread' = 0
    /\ UNCHANGED <<nodeVars, clientVars, backup_up, targets, primary_up, prog,
                   cache, op, use_backup, attempt, odata, done>>

\* connect() raises ConnectionRefusedError or socket.timeout.
OConnectFail ==
    /\ opc = "connect"
    /\ ~Reachable(Target)
    /\ Except(Append(log, [to |-> Target, ok |-> FALSE]))
    /\ UNCHANGED <<nodeVars, pc, cmdVars, lock, data, inq, peer, peerid, out,
                   committed, clientVars, replVars, backup_up, targets,
                   primary_up, prog, cache>>

\* The program is in a recv() call.
InClientRecv ==
    opc \in {"response", "result", "up_response", "up_result", "dl_response",
             "dl_recv"}

\* A message of the server that recv() has not returned yet (a send of an
\* empty string transmits nothing).
HasMsg ==
    /\ oread < Len(out[conn])
    /\ out[conn][oread + 1] # Empty

\* What recv(bufsize) may return: a message of the protocol, a non-empty
\* prefix of the content on its way, or "" once the server has closed.
Recvd ==
    IF HasMsg
    THEN LET m == out[conn][oread + 1] IN
         IF m.k = "DATA"
         THEN {[m EXCEPT !.v = SubSeq(m.v, 1, i)] :
                  i \in 1..Min(Len(m.v), RecvSize)}
         ELSE {m}
    ELSE {Empty}

\* recv() returns.
CanRecv == HasMsg \/ pc[conn] = "closed"

\* The bytes of the file on their way to download_file.
Stream ==
    IF Len(out[conn]) >= 2
    THEN IF out[conn][2].k = "BYTES" THEN out[conn][2].v ELSE <<out[conn][2].k>>
    ELSE <<>>

Remaining == SubSeq(Stream, Len(odata) + 1, Len(Stream))

\* filesize of download_file, from "READY <filesize>".
Announced == out[conn][1].n

\* The program is in a recv() call and nothing has arrived for it.
ClientWaits ==
    /\ InClientRecv
    /\ IF opc = "dl_recv" THEN Remaining = <<>> /\ Len(odata) < Announced
       ELSE ~HasMsg

\* recv() raises socket.timeout (settimeout(10), or 30 in upload_file and
\* download_file).  The timeouts are seconds long and the steps of a handler
\* are not: nothing arrives in that time only from a handler that itself
\* waits in recv for this program.  The handler's own timeout is 30 seconds
\* (the backup has none), so the program's recv gives up first.
OTimeout ==
    /\ ClientWaits
    /\ InRecv(conn) /\ inq[conn] = <<>>
    /\ Except([log EXCEPT ![Len(log)].ok = FALSE])
    /\ CloseSocket
    /\ UNCHANGED <<nodeVars, pc, cmdVars, lock, data, inq, peerid, out,
                   committed, clientVars, replVars, backup_up, targets,
                   primary_up, prog, cache>>

\* send_command: response = client.recv(1024).decode(); if response == "READY"
OResponse ==
    /\ opc = "response"
    /\ CanRecv
    /\ \E m \in Recvd :
         opc' = IF m.k = "READY" THEN "send_data" ELSE "result"
    /\ oread' = IF HasMsg THEN oread + 1 ELSE oread
    /\ UNCHANGED <<nodeVars, pc, cmdVars, lock, data, inq, peer, peerid, out,
                   committed, clientVars, replVars, backup_up, targets,
                   primary_up, prog, cache, op, use_backup, attempt, conn,
                   odata, log, done>>

\* client.send(data.encode())
OSendData ==
    /\ opc = "send_data"
    /\ inq' = [inq EXCEPT ![conn] = @ \o op.body]
    /\ opc' = "send_eof"
    /\ UNCHANGED <<nodeVars, pc, cmdVars, lock, data, peer, peerid, out,
                   committed, clientVars, replVars, backup_up, targets,
                   primary_up, prog, cache, op, use_backup, attempt, conn,
                   oread, odata, log, done>>

\* client.send("<<EOF>>".encode())
OSendEOF ==
    /\ opc = "send_eof"
    /\ inq' = [inq EXCEPT ![conn] = @ \o Sentinel]
    /\ opc' = "result"
    /\ UNCHANGED <<nodeVars, pc, cmdVars, lock, data, peer, peerid, out,
                   committed, clientVars, replVars, backup_up, targets,
                   primary_up, prog, cache, op, use_backup, attempt, conn,
                   oread, odata, log, done>>

\* The cache after send_command has received result.
CacheAfter(m) ==
    IF op.v = "READ" /\ ~IsError(m) THEN add_to_cache(cache, op.f, m.v)
    ELSE IF Invalidates(prog, op.v) THEN invalidate_cache(cache, op.f)
    ELSE cache

\* send_command: result = client.recv(4096).decode(); client.close(); the
\* cache update; return result.
OResult ==
    /\ opc = "result"
    /\ CanRecv
    /\ \E m \in Recvd :
         /\ cache' = CacheAfter(m)
         /\ Return(m, log)
    /\ CloseSocket
    /\ UNCHANGED <<nodeVars, pc, cmdVars, lock, data, inq, peerid, out,
                   committed, clientVars, replVars, backup_up, targets,
                   primary_up, prog>>

\* upload_file: response = client.recv(1024).decode(); anything but READY is
\* returned as an error.
OUpResponse ==
    /\ opc = "up_response"
    /\ CanRecv
    /\ \E m \in Recvd :
         IF m.k = "READY"
         THEN /\ opc' = "up_send"
              /\ oread' = oread + 1
              /\ UNCHANGED <<peer, op, use_backup, attempt, conn, odata, log,
                             done>>
         ELSE /\ Return(Msg("ERROR: <response>"), log)
              /\ CloseSocket
    /\ UNCHANGED <<nodeVars, pc, cmdVars, lock, data, inq, peerid, out,
                   committed, clientVars, replVars, backup_up, targets,
                   primary_up, prog, cache>>

\* upload_file: while sent < filesize: client.send(f.read(4096))
OUpSend ==
    /\ opc = "up_send"
    /\ inq' = [inq EXCEPT ![conn] = @ \o op.body]
    /\ opc' = "up_result"
    /\ UNCHANGED <<nodeVars, pc, cmdVars, lock, data, peer, peerid, out,
                   committed, clientVars, replVars, backup_up, targets,
                   primary_up, prog, cache, op, use_backup, attempt, conn,
                   oread, odata, log, done>>

\* upload_file: result = client.recv(1024).decode(); client.close();
\* invalidate_cache(filename); return result.
OUpResult ==
    /\ opc = "up_result"
    /\ CanRecv
    /\ \E m \in Recvd : Return(m, log)
    /\ cache' = invalidate_cache(cache, op.f)
    /\ CloseSocket
    /\ UNCHANGED <<nodeVars, pc, cmdVars, lock, data, inq, peerid, out,
                   committed, clientVars, replVars, backup_up, targets,
                   primary_up, prog>>

\* download_file: response = client.recv(1024).decode(); a response that
\* does not start with READY is returned.
ODlResponse ==
    /\ opc = "dl_response"
    /\ CanRecv
    /\ \E m \in Recvd :
         IF m.k = "READY <byte-count>"
         THEN /\ opc' = "dl_ack"
              /\ oread' = oread + 1
              /\ UNCHANGED <<peer, op, use_backup, attempt, conn, odata, log,
                             done>>
         ELSE /\ Return(m, log)
              /\ CloseSocket
    /\ UNCHANGED <<nodeVars, pc, cmdVars, lock, data, inq, peerid, out,
                   committed, clientVars, replVars, backup_up, targets,
                   primary_up, prog, cache>>

\* download_file: client.send("ACK".encode())
ODlAck ==
    /\ opc = "dl_ack"
    /\ inq' = [inq EXCEPT ![conn] = @ \o Ack]
    /\ opc' = "dl_recv"
    /\ UNCHANGED <<nodeVars, pc, cmdVars, lock, data, peer, peerid, out,
                   committed, clientVars, replVars, backup_up, targets,
                   primary_up, prog, cache, op, use_backup, attempt, conn,
                   oread, odata, log, done>>

\* download_file, one turn of the loop:
\* chunk = client.recv(min(4096, filesize - received)); file_data += chunk
ODlRecv ==
    /\ opc = "dl_recv"
    /\ Len(odata) < Announced
    /\ Remaining # <<>>
    /\ \E i \in 1..Min(Min(Len(Remaining), Announced - Len(odata)), RecvSize) :
         odata' = odata \o SubSeq(Remaining, 1, i)
    /\ UNCHANGED <<nodeVars, pc, cmdVars, lock, data, inq, peer, peerid, out,
                   committed, clientVars, replVars, backup_up, targets,
                   primary_up, prog, cache, opc, op, use_backup, attempt,
                   conn, oread, log, done>>

\* download_file: the loop ends (received = filesize, or an empty chunk from
\* a server that closed); file_data is saved and the function returns.
ODlSave ==
    /\ opc = "dl_recv"
    /\ \/ Len(odata) >= Announced
       \/ Remaining = <<>> /\ pc[conn] = "closed"
    /\ Return([k |-> "Download successful", v |-> odata, n |-> Announced], log)
    /\ CloseSocket
    /\ UNCHANGED <<nodeVars, pc, cmdVars, lock, data, inq, peerid, out,
                   committed, clientVars, replVars, backup_up, targets,
                   primary_up, prog, cache>>

\* A node becomes unreachable or reachable between two connection attempts.
NetChange ==
    /\ opc = "connect"
    /\ \/ primary_up' = ~primary_up /\ backup_up' = backup_up
       \/ backup_up' = ~backup_up /\ primary_up' = primary_up
    /\ UNCHANGED <<nodeVars, pc, cmdVars, lock, data, inq, peer, peerid, out,
                   committed, clientVars, replVars, targets, prog, cache, opc,
                   op, use_backup, attempt, conn, oread, odata, log, done>>

ProgramStep(k) ==
    \/ OStart(k) \/ OConnect \/ OConnectFail \/ OTimeout
    \/ OResponse \/ OSendData \/ OSendEOF \/ OResult
    \/ OUpResponse \/ OUpSend \/ OUpResult
    \/ ODlResponse \/ ODlAck \/ ODlRecv \/ ODlSave

\* ------------------------------------------------------------ specifications
ClientStep(h) ==
    \/ CConnect(h)
    \/ CSendBody(h)
    \/ CSendEOF(h)
    \/ CAck(h)
    \/ CClose(h)

LockStep(h) ==
    \/ GetLockCheck(h)
    \/ GetLockCreate(h)
    \/ GetLockReturn(h)
    \/ Acquire(h)

BodyStep(h) ==
    \/ SendReady(h)
    \/ RecvText(h)
    \/ RecvTextClosed(h)
    \/ RecvBin(h)
    \/ OpenForWrite(h)
    \/ WriteFile(h)

LookupStep(h) ==
    \/ ReadFile(h)
    \/ RemoveFile(h)
    \/ DownloadSize(h)
    \/ DownloadAck(h)

\* One node and its clients.
Next ==
    \/ \E h \in Conns : ClientStep(h)
    \/ \E h \in Conns : HandleCommand(h) \/ HandleTimeout(h) \/ Respond(h)
    \/ \E h \in Conns : LockStep(h)
    \/ \E h \in Conns : BodyStep(h)
    \/ \E h \in Conns : LookupStep(h)
    \/ \E h \in PrimaryConns : StartReplication(h) \/ ReplicateConnect(h)
    \/ \E h \in PrimaryConns : DeleteOnBackup(h)

Spec == Init /\ [][Next]_vars

\* Clients that write one after the other: the next one connects when the
\* connection of the one before is closed.
CWriteNext(h) ==
    /\ h = "p2" => pc["p1"] = "closed"
    /\ CConnectWith(h, {"WRITE"})

ReplicateStep(r) ==
    \/ ReplicateConnect(r)
    \/ ReplicateRecvReady(r)
    \/ ReplicateTimeout(r)
    \/ ReplicateSendData(r)
    \/ ReplicateSendEOF(r)
    \/ ReplicateRecvResult(r)

\* The primary with one WRITE or UPLOAD client, its replication thread and
\* the backup, which is up or down for the whole run.
InitRepl ==
    /\ InitCommon
    /\ targets = {"p1"}
    /\ backup_up \in BOOLEAN

NextRepl ==
    \/ \E h \in PrimaryConns : CConnectNext(h)
    \/ \E h \in Conns : CSendBody(h) \/ CSendEOF(h) \/ CClose(h)
    \/ \E h \in Conns : HandleCommand(h) \/ HandleTimeout(h) \/ Respond(h)
    \/ \E h \in Conns : LockStep(h)
    \/ \E h \in Conns : BodyStep(h)
    \/ \E r \in PrimaryConns : StartReplication(r)
    \/ \E r \in PrimaryConns : ReplicateStep(r)

SpecRepl == InitRepl /\ [][NextRepl]_vars

\* The primary with two WRITE clients, one after the other, that stay
\* connected for their response, the replication threads and the backup.
InitSeq ==
    /\ InitCommon
    /\ targets = PrimaryConns
    /\ backup_up = TRUE

NextSeq ==
    \/ \E h \in PrimaryConns : CWriteNext(h)
    \/ \E h \in Conns : CSendBody(h) \/ CSendEOF(h)
    \/ \E h \in Conns : HandleCommand(h) \/ HandleTimeout(h) \/ Respond(h)
    \/ \E h \in Conns : LockStep(h)
    \/ \E h \in Conns : SendReady(h) \/ RecvText(h) \/ RecvTextClosed(h)
    \/ \E h \in Conns : OpenForWrite(h) \/ WriteFile(h)
    \/ \E r \in PrimaryConns : StartReplication(r)
    \/ \E r \in PrimaryConns : ReplicateStep(r)

SpecSeq == InitSeq /\ [][NextSeq]_vars

\* One connection to one node.  Each handler thread is scheduled as long as
\* it can take a step, and a timeout that is set expires; nothing makes a
\* client send or close.
InitLive ==
    /\ InitCommon
    /\ \/ targets = {"p1"} /\ backup_up = FALSE
       \/ targets = {"b1"} /\ backup_up = TRUE

HandlerStep(h) ==
    \/ HandleCommand(h) \/ HandleTimeout(h) \/ Respond(h)
    \/ LockStep(h)
    \/ BodyStep(h)
    \/ LookupStep(h)
    \/ h \in PrimaryConns /\ (StartReplication(h) \/ DeleteOnBackup(h))

SpecLive ==
    /\ InitLive
    /\ [][Next]_vars
    /\ \A h \in Conns : WF_vars(HandlerStep(h))
    /\ \A r \in PrimaryConns : WF_vars(ReplicateConnect(r))


\* One client program running commands one after the other against the
\* primary and the backup, either of which may be unreachable at times; the
\* cache file may hold entries of an earlier run.
InitClient ==
    /\ \E c \in {Absent, Stored(OldContent), Stored(LongContent),
                 Stored(ErrorContent)} :
         files = [n \in Nodes |-> [f \in Files |-> c]]
    /\ InitHandlers
    /\ targets = {}
    /\ backup_up \in BOOLEAN
    /\ primary_up \in BOOLEAN
    /\ prog \in Programs
    /\ cache \in [CacheKeys -> {NoEntry, Entry(<<>>), Entry(OldContent)}]
    /\ cache["g"] = Entry(OldContent)
    /\ opc = "idle"
    /\ op = NoOp
    /\ use_backup = FALSE
    /\ attempt = 0
    /\ conn = "none"
    /\ oread = 0
    /\ odata = <<>>
    /\ log = <<>>
    /\ done = <<>>

\* The steps of the nodes under a client program.
NodeStep ==
    \/ \E h \in Conns : HandleCommand(h) \/ Respond(h)
    \/ \E h \in Conns : LockStep(h)
    \/ \E h \in Conns : BodyStep(h)
    \/ \E h \in Conns : LookupStep(h)
    \/ \E r \in PrimaryConns : StartReplication(r)
    \/ \E r \in PrimaryConns : ReplicateStep(r)
    \/ \E h \in PrimaryConns : DeleteOnBackup(h) \/ DeleteWait(h)

NextClient == ProgramStep(MaxOps) \/ NetChange \/ NodeStep

SpecClient == InitClient /\ [][NextClient]_vars

\* A client program running commands one after the other against a primary
\* that stays as it is, reachable or not, and whose backup is out of reach.
InitTrip ==
    /\ InitNodes
    /\ targets = {}
    /\ backup_up = FALSE
    /\ primary_up \in BOOLEAN
    /\ prog \in Programs
    /\ cache = [f \in CacheKeys |-> NoEntry]
    /\ opc = "idle"
    /\ op = NoOp
    /\ use_backup = FALSE
    /\ attempt = 0
    /\ conn = "none"
    /\ oread = 0
    /\ odata = <<>>
    /\ log = <<>>
    /\ done = <<>>

NextTrip ==
    \/ ProgramStep(MaxTrip)
    \/ \E h \in PrimaryConns : HandleCommand(h) \/ Respond(h)
    \/ \E h \in PrimaryConns : LockStep(h)
    \/ \E h \in PrimaryConns : BodyStep(h)
    \/ \E h \in PrimaryConns : LookupStep(h)
    \/ \E h \in PrimaryConns : StartReplication(h) \/ ReplicateConnect(h)
    \/ \E h \in PrimaryConns : DeleteOnBackup(h)

SpecTrip == InitTrip /\ [][NextTrip]_vars

\* The primary with a WRITE or DELETE client followed by a DELETE client, the
\* replication thread of the WRITE and the backup, which is up or down for
\* the whole run and may lack the file (of a WRITE made while it was down).
CDeleteNext(h) ==
    /\ h = "p2" => pc["p1"] = "closed"
    /\ CConnectWith(h, IF h = "p1" THEN {"WRITE", "DELETE"} ELSE {"DELETE"})

InitDel ==
    /\ \E c \in {Absent, Stored(OldContent)} :
         files = [n \in Nodes |-> [f \in Files |->
                    IF n = "primary" THEN Stored(OldContent) ELSE c]]
    /\ InitHandlers
    /\ NoProgram
    /\ targets = PrimaryConns
    /\ backup_up \in BOOLEAN

NextDel ==
    \/ \E h \in PrimaryConns : CDeleteNext(h)
    \/ \E h \in Conns : CSendBody(h) \/ CSendEOF(h)
    \/ \E h \in Conns : HandleCommand(h) \/ HandleTimeout(h) \/ Respond(h)
    \/ \E h \in Conns : LockStep(h)
    \/ \E h \in Conns : SendReady(h) \/ RecvText(h) \/ RecvTextClosed(h)
    \/ \E h \in Conns : OpenForWrite(h) \/ WriteFile(h) \/ RemoveFile(h)
    \/ \E r \in PrimaryConns : StartReplication(r)
    \/ \E r \in PrimaryConns : ReplicateStep(r)
    \/ \E h \in PrimaryConns : DeleteOnBackup(h) \/ DeleteWait(h)

SpecDel == InitDel /\ [][NextDel]_vars


\* A client that writes a text with a character outside ASCII.
CWriteText(h) ==
    /\ h \in targets
    /\ pc[h] = "idle"
    /\ verb' = [verb EXCEPT ![h] = "WRITE"]
    /\ fname' = [fname EXCEPT ![h] = "f"]
    /\ fsize' = [fsize EXCEPT ![h] = 0]
    /\ \E n \in 0..MaxLen - 1 :
         cbody' = [cbody EXCEPT ![h] = Body(h, n) \o NonAscii]
    /\ pc' = [pc EXCEPT ![h] = "start"]
    /\ peer' = [peer EXCEPT ![h] = "open"]
    /\ peerid' = [peerid EXCEPT ![h] = "client"]
    /\ cphase' = [cphase EXCEPT ![h] = "cmd"]
    /\ UNCHANGED <<nodeVars, lock, data, inq, out, committed, replVars, envVars>>

\* The primary with one client that writes such a text, the replication
\* thread and the backup, which is up.
InitText ==
    /\ InitCommon
    /\ targets = {"p1"}
    /\ backup_up = TRUE

NextText ==
    \/ \E h \in PrimaryConns : CWriteText(h)
    \/ \E h \in Conns : CSendBody(h) \/ CSendEOF(h)
    \/ \E h \in Conns : HandleCommand(h) \/ HandleTimeout(h) \/ Respond(h)
    \/ \E h \in Conns : LockStep(h)
    \/ \E h \in Conns : SendReady(h) \/ RecvText(h) \/ RecvTextClosed(h)
    \/ \E h \in Conns : OpenForWrite(h) \/ WriteFile(h)
    \/ \E r \in PrimaryConns : StartReplication(r)
    \/ \E r \in PrimaryConns : ReplicateStep(r)

SpecText == InitText /\ [][NextText]_vars


\* A client that sends a line the protocol does not have: a first token that
\* is no verb of the node (APPEND to the primary, a token that goes on after
\* a verb), or a verb without its filename.
CConnectBad(h) ==
    /\ h \in targets
    /\ pc[h] = "idle"
    /\ \E v \in {"APPEND", "LISTX", "READX", "DELETEX", "READ", "WRITE",
                 "DELETE"}, f \in Files \cup {NoName} :
         /\ v \in Supported(NodeOf(h)) => f = NoName
         /\ v \notin Supported(NodeOf(h)) => f # NoName
         /\ verb' = [verb EXCEPT ![h] = v]
         /\ fname' = [fname EXCEPT ![h] = f]
    /\ fsize' = [fsize EXCEPT ![h] = 0]
    /\ cbody' = [cbody EXCEPT ![h] = <<>>]
    /\ pc' = [pc EXCEPT ![h] = "start"]
    /\ peer' = [peer EXCEPT ![h] = "open"]
    /\ peerid' = [peerid EXCEPT ![h] = "client"]
    /\ cphase' = [cphase EXCEPT ![h] = "cmd"]
    /\ UNCHANGED <<nodeVars, lock, data, inq, out, committed, replVars, envVars>>

\* One node and clients that send such lines.
NextProto ==
    \/ \E h \in Conns : CConnectBad(h) \/ CClose(h)
    \/ \E h \in Conns : HandleCommand(h) \/ Respond(h)
    \/ \E h \in Conns : LockStep(h)
    \/ \E h \in Conns : ReadFile(h) \/ RemoveFile(h)
    \/ \E h \in PrimaryConns : DeleteOnBackup(h)

SpecProto == Init /\ [][NextProto]_vars



\* ------------------------------------------------------------ the lock table
\* Handler h is inside a with-lock block.
Holds(h) == \E l \in LockIds : lock_held[NodeOf(h)][l] = h

\* Handler h has the file open for writing: after open(), before the close.
HasOpen(h) == pc[h] = "write"

\* C1: Lock Table uniqueness: all handlers of a node to which get_lock has
\* returned a lock for the same filename hold the same lock object.
C1_OneLockPerFile ==
    \A g, h \in Conns :
        (NodeOf(g) = NodeOf(h) /\ fname[g] = fname[h]
            /\ lock[g] # NoLock /\ lock[h] # NoLock)
        => lock[g] = lock[h]

\* C2: Per-file serialization: at most one handler of a node has a given
\* file open at a time.
C2_OneAccessPerFile ==
    \A g, h \in Conns :
        (NodeOf(g) = NodeOf(h) /\ fname[g] = fname[h] /\ HasOpen(g) /\ HasOpen(h))
        => g = h

\* The handlers of node n are all finished WRITEs of file f that wrote.
AllWrote(n, f) ==
    \A h \in ConnsOf(n) :
        pc[h] = "closed" /\ verb[h] = "WRITE" /\ fname[h] = f /\ committed[h]

\* C3: Mutual exclusion outcome: once the concurrent WRITEs of a file have
\* all finished, the file holds exactly one writer's payload.
C3_OneWritersPayload ==
    \A n \in Nodes, f \in Files :
        AllWrote(n, f)
        => \E h \in ConnsOf(n) : files[n][f] = Stored(data[h])

\* The body verbs the clients use.
ClientBodyVerbs == {"WRITE", "APPEND", "UPLOAD"}

\* C4 as stated: a WRITE, APPEND or UPLOAD handler holds the file's lock
\* while it receives the body.
C4_LockHeldWhileReceiving ==
    \A h \in Conns :
        (verb[h] \in ClientBodyVerbs /\ pc[h] \in {"recv_text", "recv_bin"})
        => lock_held[NodeOf(h)][lock[h]] = h

\* C4 (amended): a WRITE, APPEND or UPLOAD handler looks its lock up before
\* READY but holds no lock while it sends READY and receives the body; it
\* holds the lock it looked up exactly while the file is opened and written.
C4_LockOnlyAroundWrite ==
    \A h \in Conns :
        (verb[h] \in ClientBodyVerbs /\ verb[h] \in Supported(NodeOf(h)))
        => /\ pc[h] \in {"ready", "recv_text", "recv_bin", "acquire"}
                => lock[h] # NoLock /\ ~Holds(h)
           /\ pc[h] \in {"open", "write"}
                => lock[h] # NoLock /\ lock_held[NodeOf(h)][lock[h]] = h
           /\ pc[h] \in {"spawn", "respond", "closed"} => ~Holds(h)

\* C4 witness: one handler is writing a received body under the lock while
\* another, given the same lock object, receives its body without it.
C4_Witness ==
    \E g, h \in Conns :
        /\ verb[g] \in ClientBodyVerbs /\ verb[h] \in ClientBodyVerbs
        /\ pc[g] = "write" /\ data[g] # <<>> /\ lock_held[NodeOf(g)][lock[g]] = g
        /\ pc[h] \in {"recv_text", "recv_bin"} /\ data[h] # <<>>
        /\ NodeOf(g) = NodeOf(h) /\ lock[h] = lock[g]

\* The peer of h closed before the whole body had been received: the
\* byte-count loop was left short, or the sentinel loop finds the
\* connection closed.
ShortBody(h) ==
    \/ /\ verb[h] \in BinVerbs
       /\ pc[h] \in {"acquire", "open", "write", "spawn", "respond", "closed"}
       /\ Len(data[h]) < fsize[h]
    \/ /\ verb[h] \in TextVerbs
       /\ pc[h] = "recv_text" /\ inq[h] = <<>> /\ peer[h] = "closed"

\* C5: No partial commit: a handler whose peer closed before the whole body
\* was received neither touches the file nor sends a confirmation.
C5_NoPartialCommit ==
    \A h \in Conns :
        ShortBody(h) => ~committed[h] /\ ~Sent(h, SuccessText(h))

\* ------------------------------------------------------------ termination
\* C6: Every connection handler on either node eventually terminates and
\* closes its connection, whatever the client does: a handler that has been
\* started leads to its connection being closed.
C6_HandlersTerminate ==
    \A h \in Conns : (pc[h] \notin {"idle", "closed"}) ~> (pc[h] = "closed")

\* ------------------------------------------------------------ replication
\* The verbs of the primary that replicate.
ReplicatedVerbs == {"WRITE", "UPLOAD"}

\* Handler h has sent its success confirmation to the client.
Confirmed(h) == Sent(h, SuccessText(h))

\* C7 as stated: for every WRITE or UPLOAD on the primary the success
\* response is sent after the local commit and before the Replication
\* Sender's first connection attempt.
C7_AckBeforeReplicate ==
    \A h \in PrimaryConns :
        verb[h] \in ReplicatedVerbs
        => /\ Confirmed(h) => committed[h]
           /\ rattempt[h] >= 1 => pc[h] = "closed"

\* C7 (amended): for every WRITE or UPLOAD on the primary the success
\* response is sent after the local commit and after the Replication Sender's
\* thread has been started, and the sender is started only after the commit;
\* the sender's connection attempts are not ordered with the response.
C7_AckAfterCommitAndStart ==
    \A h \in PrimaryConns :
        verb[h] \in ReplicatedVerbs
        => /\ Confirmed(h) => committed[h] /\ rpc[h] # "none"
           /\ pc[h] \in {"respond", "closed"} /\ committed[h] => rpc[h] # "none"
           /\ rpc[h] # "none" => committed[h] /\ pc[h] \in {"respond", "closed"}

\* C7 witness: a write has been committed and handed to the sender, which has
\* connected to the backup, and the response is still to be sent.
C7_Witness ==
    \E h \in PrimaryConns :
        /\ verb[h] \in ReplicatedVerbs /\ committed[h]
        /\ pc[h] = "respond" /\ ~Confirmed(h)
        /\ rattempt[h] >= 1 /\ rpc[h] = "wait_ready"

\* C8: Replication outcome is invisible to the client: a WRITE or UPLOAD
\* handler of the primary that has committed can always send its response at
\* once, whatever the state of the sender and of the backup, and to a client
\* that is still connected what it sends is the success confirmation.
C8_OutcomeInvisible ==
    [][\A h \in PrimaryConns :
         (verb[h] \in ReplicatedVerbs /\ pc[h] = "respond")
         => /\ committed[h]
            /\ ENABLED Respond(h)
            /\ (pc'[h] # pc[h] /\ peer[h] = "open")
                  => /\ pc'[h] = "closed"
                     /\ out'[h] = Append(out[h], SuccessMsg(h))]_vars

\* C8 witness: the client has its confirmation and every attempt of the
\* sender has failed.
C8_Witness ==
    \E h \in PrimaryConns :
        /\ verb[h] \in ReplicatedVerbs /\ committed[h]
        /\ Confirmed(h) /\ rpc[h] = "false"

\* The connections the backup has accepted from sender r.
AcceptedFrom(r) == {b \in BackupConns : pc[b] # "idle" /\ peerid[b] = r}

\* C9 as stated: the sender makes at most 3 attempts and terminates; when it
\* returns failure the content is never delivered and the backup keeps its
\* old content.
C9_FailureMeansUndelivered ==
    \A r \in PrimaryConns :
        /\ rattempt[r] <= max_retries
        /\ rpc[r] = "false"
             => /\ rattempt[r] = max_retries
                /\ \A b \in AcceptedFrom(r) : ~committed[b]
                /\ files["backup"]["f"] = Stored(OldContent)

\* C9 (amended): the sender makes at most 3 attempts, each over a connection
\* of its own, and after its return (success at the first attempt that gets
\* a result, failure after 3 failed attempts) it takes no further step; an
\* attempt that failed may still have left its content with the backup, so
\* after a failure the backup holds its old content or the new one (or the
\* file is being rewritten).
C9_BoundedAttempts ==
    \A r \in PrimaryConns :
        /\ rattempt[r] <= max_retries
        /\ Cardinality(AcceptedFrom(r)) <= rattempt[r]
        /\ rpc[r] \in {"none", "connect"} \/ rattempt[r] >= 1
        /\ rpc[r] = "false" => rattempt[r] = max_retries
        /\ rpc[r] \in {"true", "false"} => ~ENABLED ReplicateStep(r)
        /\ rpc[r] = "false"
             => files["backup"]["f"].data \in {OldContent, <<>>, rdata[r]}

\* C9 witness: the sender has returned failure after 3 attempts, one of which
\* the backup has applied all the same.
C9_Witness ==
    \E r \in PrimaryConns :
        /\ rpc[r] = "false" /\ rattempt[r] = max_retries
        /\ rdata[r] # <<>>
        /\ \E b \in AcceptedFrom(r) : committed[b] /\ pc[b] = "closed"
        /\ files["backup"]["f"] = Stored(rdata[r])

\* WRITE handler h of the primary has confirmed its write to the client.
Acked(h) == pc[h] = "closed" /\ verb[h] = "WRITE" /\ Confirmed(h)

\* C10: Eventual mirroring: once every WRITE of the sequence is acknowledged
\* and the sender of each has reported success (none is running), and no
\* handler of the backup has the file open, the backup holds for the file
\* what the primary holds.
C10_EventualMirroring ==
    ( /\ \E h \in PrimaryConns : Acked(h)
      /\ \A h \in PrimaryConns : pc[h] = "idle" \/ (Acked(h) /\ rpc[h] = "true")
      /\ \A b \in BackupConns : ~HasOpen(b) )
    => files["backup"]["f"] = files["primary"]["f"]

\* ------------------------------------------------------------ C20
\* C20: APPEND is served like WRITE: an APPEND request sent to a storage node,
\* the primary as well as the backup, is answered with READY (and then, after
\* the body and the sentinel, with a confirmation): the first answer of a
\* handler to an APPEND request is READY.
C20_AppendServed ==
    \A h \in Conns :
        verb[h] = "APPEND" /\ out[h] # <<>> => out[h][1].k = "READY"

\* ------------------------------------------------------------ C11
\* The commands that change a file.
Mutations == {"WRITE", "APPEND", "DELETE", "UPLOAD"}

\* The attempts of a log that connected to node n.
Attempts(lg, n) == {i \in 1..Len(lg) : lg[i].to = n}

\* Every attempt of the log raised (connect refused, or a recv timed out).
AllFailed(lg) == \A i \in 1..Len(lg) : ~lg[i].ok

\* The commands run so far, the current one included.
VerbsSoFar ==
    {done[i].v : i \in 1..Len(done)} \cup (IF opc = "idle" THEN {} ELSE {op.v})

\* C11: for a WRITE, APPEND, DELETE or UPLOAD the client never opens a
\* connection to the backup and never consults the cache for a result: all its
\* attempts, 3 at most, go to the primary, and when 3 attempts have failed it
\* returns an error result.
C11_PrimaryOnly ==
    /\ opc # "idle" /\ op.v \in Mutations =>
          /\ ~use_backup
          /\ Len(log) <= max_retries
          /\ Attempts(log, "primary") = 1..Len(log)
          /\ conn # "none" => NodeOf(conn) = "primary"
    /\ VerbsSoFar \subseteq Mutations =>
          \A b \in BackupConns : pc[b] # "idle" => peerid[b] # "program"
    /\ \A i \in 1..Len(done) :
          done[i].v \in Mutations =>
            /\ Len(done[i].log) <= max_retries
            /\ Attempts(done[i].log, "primary") = 1..Len(done[i].log)
            /\ done[i].result.k # "[FROM CACHE]"
            /\ Len(done[i].log) = max_retries /\ AllFailed(done[i].log)
                  => IsError(done[i].result)

\* A WRITE has returned an error after 3 failed attempts on the primary.
C11_Witness ==
    /\ done # <<>>
    /\ done[1].v = "WRITE"
    /\ Len(done[1].log) = max_retries
    /\ AllFailed(done[1].log)
    /\ IsError(done[1].result)

\* ------------------------------------------------------------ C12
\* The log of a READ is in failover order: attempts on the primary, then
\* attempts on the backup, then the cache lookup; 3 attempts per node at most;
\* the backup only after 3 failed attempts on the primary, the cache only
\* after 3 failed attempts on the backup as well.
InOrder(lg) ==
    LET p == Attempts(lg, "primary")
        b == Attempts(lg, "backup")
        c == Attempts(lg, "cache")
    IN
    /\ Cardinality(p) <= max_retries
    /\ Cardinality(b) <= max_retries
    /\ Cardinality(c) <= 1
    /\ lg # <<>> => lg[1].to = "primary"
    /\ \A i \in p : \A j \in b \cup c : i < j
    /\ \A i \in b : \A j \in c : i < j
    /\ b # {} => Cardinality(p) = max_retries /\ \A i \in p : ~lg[i].ok
    /\ c # {} => Cardinality(b) = max_retries /\ \A i \in b : ~lg[i].ok

\* A READ in progress can go on: the program has a step, or the handler it
\* waits for has one, or that handler waits for a lock whose holder has one
\* (or the connection slots of the model are used up).
ReadGoesOn ==
    \/ ENABLED ProgramStep(MaxOps)
    \/ conn # "none" /\ ENABLED HandlerStep(conn)
    \/ /\ conn # "none" /\ pc[conn] = "acquire"
       /\ \E h \in ConnsOf(NodeOf(conn)) :
             /\ lock_held[NodeOf(conn)][lock[conn]] = h
             /\ ENABLED HandlerStep(h)
    \/ opc = "connect" /\ FreeConns(Target) = {}

\* C12: a READ contacts the primary first, the backup only after exactly 3
\* failed attempts on the primary and at most 3 times, and the cache only
\* after those have all failed; it makes at most 6 connection attempts, is
\* never stuck, and so always returns.
C12_FailoverOrder ==
    /\ opc # "idle" /\ op.v = "READ" =>
          /\ InOrder(log)
          /\ use_backup <=>
                /\ Cardinality(Attempts(log, "primary")) = max_retries
                /\ \A i \in Attempts(log, "primary") : ~log[i].ok
          /\ conn # "none" => NodeOf(conn) = Target
          /\ ReadGoesOn
    /\ \A i \in 1..Len(done) :
          done[i].v = "READ" =>
            /\ InOrder(done[i].log)
            /\ Cardinality(Attempts(done[i].log, "primary")
                            \cup Attempts(done[i].log, "backup")) <= 2 * max_retries

\* A READ has returned after 3 failed attempts on the primary, 3 failed
\* attempts on the backup and the cache lookup.
C12_Witness ==
    /\ done # <<>>
    /\ done[1].v = "READ"
    /\ Cardinality(Attempts(done[1].log, "primary")) = max_retries
    /\ Cardinality(Attempts(done[1].log, "backup")) = max_retries
    /\ Attempts(done[1].log, "cache") # {}

\* ------------------------------------------------------------ C13
\* The command returned with the result of a connection to node n.
ServedBy(d, n) ==
    /\ d.log # <<>>
    /\ d.log[Len(d.log)].to = n
    /\ d.log[Len(d.log)].ok

\* C13: with the primary unreachable and the backup reachable and holding F,
\* a READ of F returns exactly the backup's content of F, without the cache
\* tag.
C13_FailoverResult ==
    /\ Len(done) = 1
    /\ done[1].v = "READ"
    /\ ServedBy(done[1], "backup")
    /\ files["backup"][done[1].f].ex
    => done[1].result = [k |-> "DATA", v |-> files["backup"][done[1].f].data,
                         n |-> 0]

\* ------------------------------------------------------------ C14
\* The result is marked as served from the cache.
FromCache(r) == r.k = "[FROM CACHE]"

\* C14: when the primary and the backup are unreachable, a READ of F returns
\* F's cached content marked as cache-sourced if the cache has an entry of F,
\* whatever its content (an empty file included), and an error result if it
\* has none; a result is marked cache-sourced only when the cache served it.
C14_CacheFallback ==
    Len(done) = 1 /\ done[1].v = "READ" =>
      LET d == done[1] IN
      /\ Attempts(d.log, "cache") # {} =>
            IF cache[d.f].has
            THEN d.result = [k |-> "[FROM CACHE]", v |-> cache[d.f].content,
                             n |-> 0]
            ELSE IsError(d.result) /\ ~FromCache(d.result)
      /\ FromCache(d.result) =>
            /\ Attempts(d.log, "cache") # {}
            /\ AllFailed(SubSeq(d.log, 1, Len(d.log) - 1))

\* ------------------------------------------------------------ C15
\* C15: after a WRITE, UPLOAD, APPEND or DELETE on F has returned, whether it
\* succeeded or failed, the cache holds no entry for F.
C15_InvalidateOnAttempt ==
    \A i \in 1..Len(done) :
        i = Len(done) /\ opc = "idle" /\ done[i].v \in Mutations
          => ~cache[done[i].f].has

\* ------------------------------------------------------------ C16
\* The confirmations of the primary.
SuccessTexts ==
    {"Write successful (replicated to backup)",
     "Upload successful - replicated to backup",
     "Delete successful (removed from main and backup)"}

\* C16: after a WRITE, DELETE or UPLOAD on F that returned a success
\* response the cache holds no entry for F captured before that operation,
\* in both client programs.
C16_NoStaleAfterSuccess ==
    Len(done) = 1 /\ opc = "idle"
    /\ done[1].v \in {"WRITE", "DELETE", "UPLOAD"}
    /\ done[1].result.k \in SuccessTexts
    => ~cache[done[1].f].has

\* ------------------------------------------------------------ C17
\* The step in which the current READ returns.
ReadReturns == op.v = "READ" /\ opc # "idle" /\ opc' = "idle"

\* The node the READ is connected to has answered it with a content.
AnsweredWithContent ==
    /\ conn # "none"
    /\ out[conn] # <<>>
    /\ out[conn][1].k = "DATA"

\* C17: a READ of F answered by the primary or the backup with content (not
\* an error) leaves exactly that content as the cache entry of F, replacing
\* any prior entry, and the other entries unchanged; a READ answered with an
\* error, and any step of a READ before it returns, leaves the whole cache
\* unchanged.
C17_CachePopulation ==
    [][op.v = "READ" =>
         IF ReadReturns /\ AnsweredWithContent
         THEN cache' = [cache EXCEPT ![op.f] = Entry(out[conn][1].v)]
         ELSE cache' = cache]_vars

\* ------------------------------------------------------------ C18
\* C18: a client WRITE of a text C to F on a reachable primary followed by a
\* READ of F returns exactly C, for every C (empty or longer than one receive
\* chunk) and every way the transport splits or joins the body and the
\* sentinel.
C18_TextRoundTrip ==
    /\ primary_up
    /\ Len(done) = 2
    /\ done[1].v = "WRITE"
    /\ done[2].v = "READ"
    => done[2].result = [k |-> "DATA", v |-> done[1].body, n |-> 0]

\* ------------------------------------------------------------ C19
\* C19: an UPLOAD of the bytes B (of any length S, 0 included) as F to a
\* reachable primary is confirmed, and a DOWNLOAD of F that follows it, with
\* no other writer of F in between, delivers READY S and exactly the bytes
\* of B.
C19_UploadDownload ==
    /\ primary_up
    /\ Len(done) = 2
    /\ done[1].v = "UPLOAD"
    /\ done[2].v = "DOWNLOAD"
    => /\ done[1].result.k = "Upload successful - replicated to backup"
       /\ done[2].result = [k |-> "Download successful", v |-> done[1].body,
                            n |-> Len(done[1].body)]

\* An upload of MaxLen bytes and its download have returned, the bytes
\* delivered.
C19_Witness ==
    /\ Len(done) = 2
    /\ done[1].v = "UPLOAD"
    /\ done[2].v = "DOWNLOAD"
    /\ Len(done[1].body) = MaxLen
    /\ done[2].result.k = "Download successful"
    /\ done[2].result.v = done[1].body

\* ------------------------------------------------------------ C25
\* C25: a handler never holds a per-file lock while it is blocked in a recv
\* for input from its own client, so that a client that stalls cannot keep
\* other connections' commands on the same filename from completing.
C25_NoLockWhileWaiting ==
    \A h \in Conns : InRecv(h) /\ inq[h] = <<>> => ~Holds(h)

\* ------------------------------------------------------------ C22
\* The first answer to a READ, DOWNLOAD or DELETE that succeeds.
LookupSuccess(h) ==
    CASE verb[h] = "READ" -> "DATA"
      [] verb[h] = "DOWNLOAD" -> "READY <byte-count>"
      [] OTHER -> SuccessText(h)

\* C22: every READ, DOWNLOAD or DELETE of F is answered either with its
\* success response or with exactly ERROR: File not found, in every
\* interleaving with concurrent DELETEs of F.
C22_NotFoundOrSuccess ==
    \A h \in Conns :
        verb[h] \in LookupVerbs /\ out[h] # <<>>
        => out[h][1].k \in {LookupSuccess(h), "ERROR: File not found"}

\* ------------------------------------------------------------ C23
\* C23: DOWNLOAD handshake: the node sends READY <byte-count> first, streams
\* file bytes only after it has received the literal ACK from the client, and
\* the number of bytes it then streams equals the announced byte-count, even
\* when other clients write or delete the same file concurrently.
\* The step in which handler h streams the file.
Streams(h) ==
    /\ verb[h] = "DOWNLOAD"
    /\ Len(out'[h]) = Len(out[h]) + 1
    /\ out'[h][Len(out'[h])].k = "BYTES"

C23_DownloadHandshake ==
    [][\A h \in Conns :
         Streams(h)
         => /\ Len(out[h]) = 1
            /\ out[h][1].k = "READY <byte-count>"
            /\ inq[h] = Ack
            /\ Len(out'[h][2].v) = out[h][1].n]_vars

\* ------------------------------------------------------------ C24
\* The confirmation of a DELETE on the primary.
DeleteConfirmation == Msg("Delete successful (removed from main and backup)")

\* Handler h is past its local remove and has not answered yet.
AfterRemove(h) == pc[h] \in {"del_backup", "del_wait", "respond"}

\* C24: DELETE on the primary: the handler removes the existing file
\* locally, then attempts the backup deletion synchronously (the attempt has
\* finished or failed before the response is sent), and answers with the
\* same confirmation whether the backup deletion succeeded, found no file,
\* or the backup was unreachable.
C24_DeleteOnPrimary ==
    [][\A h \in PrimaryConns :
         verb[h] = "DELETE"
         => /\ (pc[h] = "remove" /\ pc'[h] # "remove"
                  /\ files["primary"][fname[h]].ex)
               => /\ ~files'["primary"][fname[h]].ex
                  /\ pc'[h] = "del_backup"
                  /\ out'[h] = out[h]
            /\ (pc[h] = "del_backup" /\ pc'[h] # "del_backup")
               => /\ out'[h] = out[h]
                  /\ IF Accepts
                     THEN pc'[h] = "del_wait" /\ verb'[rsock'[h]] = "DELETE"
                     ELSE pc'[h] = "respond"
            /\ (pc[h] = "del_wait" /\ pc'[h] # "del_wait")
               => /\ out'[h] = out[h]
                  /\ pc'[h] = "respond"
                  /\ peer'[rsock[h]] = "closed"
            /\ (AfterRemove(h) /\ pc'[h] = "closed" /\ peer[h] = "open")
               => pc[h] = "respond" /\ out'[h] = <<DeleteConfirmation>>]_vars

\* A DELETE was confirmed to its client after the backup had answered that
\* it holds no such file.
C24_Witness ==
    \E h \in PrimaryConns :
        /\ verb[h] = "DELETE"
        /\ out[h] = <<DeleteConfirmation>>
        /\ rsock[h] # "none"
        /\ out[rsock[h]] = <<Msg("ERROR: File not found")>>
        /\ peer[rsock[h]] = "closed"

\* ------------------------------------------------------------ C26
\* All replication activity has finished: no replication thread and no
\* handler of the backup has a step left to take.
ReplicationQuiet ==
    /\ \A r \in PrimaryConns : rpc[r] \in {"none", "true", "false"}
    /\ \A r \in PrimaryConns : pc[r] \in {"idle", "closed"}
    /\ \A b \in BackupConns : pc[b] \in {"idle", "closed"}

\* C26: no resurrection after delete: if a WRITE of F and then a DELETE of F
\* are both acknowledged as successful by the primary, with the backup
\* reachable throughout, then once all replication activity has finished the
\* backup does not hold F.  The case checked is the one in which nothing
\* failed: the replication went through at its first attempt and the backup
\* answered the DELETE the primary sent it.
C26_NoResurrection ==
    /\ backup_up
    /\ verb["p1"] = "WRITE" /\ Sent("p1", "Write successful (replicated to backup)")
    /\ verb["p2"] = "DELETE" /\ out["p2"] = <<DeleteConfirmation>>
    /\ rpc["p1"] = "true" /\ rattempt["p1"] = 1
    /\ rsock["p2"] # "none" /\ out[rsock["p2"]] # <<>>
    /\ ReplicationQuiet
    => ~files["backup"]["f"].ex

\* ------------------------------------------------------------ C27
\* C27: replicate_to_backup returns True only in executions where the backup
\* wrote the replicated data to the file and answered with its replication
\* confirmation, not when the backup answered with an error or closed the
\* connection after READY.
C27_TrueOnlyIfCommitted ==
    \A r \in PrimaryConns :
        rpc[r] = "true"
        => /\ committed[rsock[r]]
           /\ data[rsock[r]] = rdata[r]
           /\ out[rsock[r]] = <<Msg("READY"), Msg("Replication successful")>>

\* ------------------------------------------------------------ C21
\* The request of h violates the protocol: its first token is not one of the
\* node's verbs, or its verb comes without the filename.
ProtocolViolation(h) ==
    /\ verb[h] # ""
    /\ verb[h] \notin Supported(NodeOf(h)) \/ fname[h] = NoName

\* C21: a request whose verb is not one of the node's supported verbs
\* (including a token that merely begins with a supported verb, such as
\* READX), or whose argument count is wrong for its verb, is answered with
\* exactly ERROR: Invalid command and changes no file and no lock-table
\* entry.
C21_InvalidCommand ==
    [][\A h \in Conns :
         pc[h] = "start" /\ pc'[h] # "start" /\ ProtocolViolation(h)
            /\ peer[h] = "open"
         => /\ out'[h] = <<Msg("ERROR: Invalid command")>>
            /\ pc'[h] = "closed"
            /\ files' = files
            /\ file_locks' = file_locks]_vars

====
